---------------------------- MODULE Spec2Model ----------------------------
(***************************************************************************)
(* Verification model of monai/transforms/utils.py: the slice clipper      *)
(* (copypaste_arrays, resize_center), the crop-center sampler              *)
(* (generate_pos_neg_label_crop_centers), the grid builders (create_grid,  *)
(* create_control_grid) and the affine builders (create_rotate,            *)
(* create_shear, create_scale, create_translate, to_affine_nd).            *)
(*                                                                         *)
(* Every function of the module is a function of its arguments and of the  *)
(* values the random source returns.  A call is modelled by four           *)
(* variables: the arguments (call), the locals of the running function     *)
(* (frame), its position (pc) and what it returned or raised (ret).        *)
(*                                                                         *)
(* Conventions.  Python indices are kept 0-based inside arrays (an index   *)
(* is a tuple of naturals); tuples and lists of Python are TLA+ sequences  *)
(* (1-based).  None and 0 are both falsy and take the same branches in the *)
(* code; a falsy dimension is the number 0.  Matrices are sequences of     *)
(* rows.                                                                   *)
(***************************************************************************)
EXTENDS Integers, Sequences, FiniteSets, TLC

VARIABLES pc, call, frame, ret

vars == <<pc, call, frame, ret>>

\* A call that is not running has no locals and has returned nothing.
NoFrame == [fn |-> "none"]
NoRet == [kind |-> "none"]

-----------------------------------------------------------------------------
(* Bounds of the model *)

\* Largest extent of an array dimension in the slice clipper.
MaxExt == 3
\* Largest requested window width (dims[i]) in copypaste_arrays.
MaxDim == 3
\* Largest extent of an image in resize_center.
MaxImg == 2
\* Largest growth of a dimension in resize_center.
MaxGrow == 2
\* Largest num_samples of the crop-center sampler.
MaxSamples == 2
\* The random source returns the uniform values k / RandDen, 0 <= k < RandDen,
\* and pos_ratio is supplied as a multiple of 1 / RandDen.
RandDen == 2
\* Extent of the one wide label, beyond the range of a 16-bit index.
WideExtent == 65541
\* Largest entry of the matrix given to to_affine_nd (entries are 0..MaxEntry).
MaxEntry == 1
\* Largest number of builder matrices multiplied together.
MaxFactors == 3
\* Largest spatial extent given to create_control_grid.
MaxGridExt == 5
\* Spacings are the fractions p / q with 1 <= p, q <= MaxSpacing.
MaxSpacing == 3

-----------------------------------------------------------------------------
(* Arithmetic and array helpers *)

Min(a, b) == IF a <= b THEN a ELSE b
Max(a, b) == IF a >= b THEN a ELSE b

\* Python's truth value of a number (None is modelled by 0).
Truthy(x) == x # 0

\* np.clip(x, a_min, a_max) = minimum(a_max, maximum(x, a_min))
clip(x, a_min, a_max) == Min(a_max, Max(x, a_min))

\* Python's zip stops at the shortest argument.
ZipLen(lens) == CHOOSE m \in lens : \A k \in lens : m <= k

RECURSIVE Indices(_)
\* All index tuples of an array of the given shape.
Indices(shape) ==
    IF shape = <<>> THEN {<<>>}
    ELSE {<<i>> \o rest : i \in 0..(shape[1] - 1), rest \in Indices(Tail(shape))}

\* np.full(shape, fill_value)
full(shape, fill_value) ==
    [shape |-> shape, data |-> [idx \in Indices(shape) |-> fill_value]]

\* slice(None) and slice(start, stop)
SliceAll == [all |-> TRUE, start |-> 0, stop |-> 0]
slice(start, stop) == [all |-> FALSE, start |-> start, stop |-> stop]

\* Python's slice.indices(n) for a step of 1: a negative bound counts from
\* the end, and both bounds are clamped to 0..n.
SliceBound(x, n) == IF x < 0 THEN Max(x + n, 0) ELSE Min(x, n)
SliceStart(sl, n) == IF sl.all THEN 0 ELSE SliceBound(sl.start, n)
SliceStop(sl, n) == IF sl.all THEN n ELSE SliceBound(sl.stop, n)
\* Number of elements the slice selects in a dimension of extent n.
SliceLen(sl, n) == Max(SliceStop(sl, n) - SliceStart(sl, n), 0)

-----------------------------------------------------------------------------
(* SliceClipper: copypaste_arrays *)

\* dimension before midpoint, clipped to the size fitting in both arrays
d1(dim, sc, dc) == clip(dim \div 2, 0, Min(sc, dc))

\* Faulty variant of d2: the clip against dest is left out.
d2_NoDestClip(dim, ss, sc, ds, dc) == clip(dim \div 2 + 1, 0, ss - sc)

\* Faulty variant of d2: the element at the center is not counted.
d2_NoPlusOne(dim, ss, sc, ds, dc) == clip(dim \div 2, 0, Min(ss - sc, ds - dc))

\* dimension after midpoint, clipped to the size fitting in both arrays
d2(dim, ss, sc, ds, dc) == clip(dim \div 2 + 1, 0, Min(ss - sc, ds - dc))

\* Number of dimensions the loop of copypaste_arrays visits.
ZipDims(src, dest, srccenter, destcenter, dims) ==
    ZipLen({Len(src.shape), Len(dest.shape), Len(srccenter), Len(destcenter),
            Len(dims)})

copypaste_arrays(src, dest, srccenter, destcenter, dims) ==
    LET n == ZipDims(src, dest, srccenter, destcenter, dims)
        visited(i) == i <= n /\ Truthy(dims[i])
        srcslices ==
            [i \in 1..Len(src.shape) |->
                IF visited(i)
                THEN slice(srccenter[i] - d1(dims[i], srccenter[i], destcenter[i]),
                           srccenter[i] + d2(dims[i], src.shape[i], srccenter[i],
                                             dest.shape[i], destcenter[i]))
                ELSE SliceAll]
        destslices ==
            [i \in 1..Len(dest.shape) |->
                IF visited(i)
                THEN slice(destcenter[i] - d1(dims[i], srccenter[i], destcenter[i]),
                           destcenter[i] + d2(dims[i], src.shape[i], srccenter[i],
                                              dest.shape[i], destcenter[i]))
                ELSE SliceAll]
    IN  <<srcslices, destslices>>

\* Array shapes of rank 1 and 2.
ClipShapes ==
    {<<a>> : a \in 1..MaxExt} \cup {<<a, b>> : a \in 1..MaxExt, b \in 1..MaxExt}

\* Requested widths: a negative one, the falsy one (0 / None), positive ones.
DimValues == (-1)..MaxDim

\* dims may be shorter than the rank of the arrays.
DimsUpTo(r) == UNION {[1..k -> DimValues] : k \in 0..r}

InitClip ==
    /\ pc = "start"
    /\ frame = NoFrame
    /\ ret = NoRet
    /\ \E s \in ClipShapes, t \in ClipShapes :
          /\ Len(s) = Len(t)
          /\ \E sc \in Indices(s), dc \in Indices(t), dims \in DimsUpTo(Len(s)) :
                call = [fn |-> "copypaste_arrays", src |-> full(s, 0),
                        dest |-> full(t, 0), srccenter |-> sc,
                        destcenter |-> dc, dims |-> dims]

CopyPaste ==
    /\ pc = "start"
    /\ call.fn = "copypaste_arrays"
    /\ LET r == copypaste_arrays(call.src, call.dest, call.srccenter,
                                 call.destcenter, call.dims)
       IN  ret' = [kind |-> "slices", srcslices |-> r[1], destslices |-> r[2]]
    /\ pc' = "done"
    /\ UNCHANGED <<call, frame>>

NextClip == CopyPaste

SpecClip == InitClip /\ [][NextClip]_vars

ClipDone == pc = "done" /\ call.fn = "copypaste_arrays"

\* The raw bounds of a returned slice lie in the array: 0 <= start <= stop <= n.
SliceInside(sl, n) ==
    IF sl.all THEN TRUE ELSE 0 <= sl.start /\ sl.start <= sl.stop /\ sl.stop <= n

\* C1: with in-bounds centers and any dims, every slice copypaste_arrays
\* returns satisfies 0 <= start <= stop <= shape[i] of the array it indexes.
C1_SlicesInBounds ==
    ClipDone =>
        /\ \A i \in DOMAIN ret.srcslices :
              SliceInside(ret.srcslices[i], call.src.shape[i])
        /\ \A i \in DOMAIN ret.destslices :
              SliceInside(ret.destslices[i], call.dest.shape[i])

\* C1 witness: a requested window was clipped at the upper end of dest while
\* src would have allowed more, and at the lower end by a center at index 0.
C1_Witness ==
    /\ ClipDone
    /\ \E i \in DOMAIN call.dims :
          /\ call.dims[i] > 0
          /\ ret.destslices[i].stop = call.dest.shape[i]
          /\ ret.srcslices[i].stop < call.src.shape[i]
          /\ call.dims[i] \div 2 + 1 > call.dest.shape[i] - call.destcenter[i]
    /\ \E i \in DOMAIN call.dims :
          call.dims[i] > 1 /\ ret.srcslices[i].start = 0 /\ call.srccenter[i] = 0

\* C2 as claimed: for every dimension, also one whose dims[i] is falsy or
\* missing, srcslices[i] selects as many elements of src as destslices[i]
\* selects of dest.
C2_EqualLengths ==
    ClipDone =>
        \A i \in DOMAIN ret.srcslices :
            SliceLen(ret.srcslices[i], call.src.shape[i])
                = SliceLen(ret.destslices[i], call.dest.shape[i])

\* C3 as claimed: for a positive dims[i] the copied window is exactly dims[i]
\* wide when no array boundary clips it, and never wider than dims[i].
Unclipped(i) ==
    /\ call.dims[i] \div 2 <= Min(call.srccenter[i], call.destcenter[i])
    /\ call.dims[i] \div 2 + 1 <=
          Min(call.src.shape[i] - call.srccenter[i],
              call.dest.shape[i] - call.destcenter[i])

C3_WidthAtMostDims ==
    ClipDone =>
        \A i \in DOMAIN call.dims :
            call.dims[i] > 0 =>
                LET w == ret.srcslices[i].stop - ret.srcslices[i].start
                IN  /\ w <= call.dims[i]
                    /\ Unclipped(i) => w = call.dims[i]

-----------------------------------------------------------------------------
(* SliceClipper: resize_center *)

\* resize_dims[i] or img.shape[i]
OrShape(img, resize_dims) ==
    [i \in 1..Len(resize_dims) |->
        IF Truthy(resize_dims[i]) THEN resize_dims[i] ELSE img.shape[i]]

\* np.asarray(shape) // 2
half_shape(shape) == [i \in DOMAIN shape |-> shape[i] \div 2]

\* dest[destslices] = src[srcslices] for arrays of equal rank.  numpy
\* accepts the assignment when, in every dimension, the source selection is as
\* long as the destination selection or has length 1 (broadcast); otherwise it
\* raises ValueError.
SetSlice(dest, destslices, src, srcslices) ==
    LET r == 1..Len(dest.shape)
        dlo(i) == SliceStart(destslices[i], dest.shape[i])
        slo(i) == SliceStart(srcslices[i], src.shape[i])
        dlen(i) == SliceLen(destslices[i], dest.shape[i])
        slen(i) == SliceLen(srcslices[i], src.shape[i])
        selected(idx) == \A i \in r : dlo(i) <= idx[i] /\ idx[i] < dlo(i) + dlen(i)
        from(idx) ==
            [i \in r |-> IF slen(i) = 1 THEN slo(i) ELSE slo(i) + (idx[i] - dlo(i))]
    IN  IF \E i \in r : slen(i) # dlen(i) /\ slen(i) # 1
        THEN [kind |-> "ValueError"]
        ELSE [kind |-> "array",
              val |-> [shape |-> dest.shape,
                       data |-> [idx \in DOMAIN dest.data |->
                                    IF selected(idx) THEN src.data[from(idx)]
                                    ELSE dest.data[idx]]]]

resize_center(img, resize_dims, fill_value) ==
    LET dims == OrShape(img, resize_dims)
        dest == full(dims, fill_value)
        half_img_shape == half_shape(img.shape)
        half_dest_shape == half_shape(dest.shape)
        sl == copypaste_arrays(img, dest, half_img_shape, half_dest_shape, dims)
    IN  SetSlice(dest, sl[2], img, sl[1])

\* Images of rank 1 and 2 over two pixel values; fill values, one of them no
\* pixel value.
ResizeShapes ==
    {<<a>> : a \in 1..MaxImg} \cup {<<a, b>> : a \in 1..MaxImg, b \in 1..MaxImg}

PixelValues == {0, 1}

FillValues == {0, 9}

\* Target extents: 0 / None (keep the extent of img) or the extent of img
\* grown by 0..MaxGrow.
Targets(s) ==
    {t \in [1..Len(s) -> 0..(MaxImg + MaxGrow)] :
        \A i \in 1..Len(s) : t[i] = 0 \/ (s[i] <= t[i] /\ t[i] <= s[i] + MaxGrow)}

InitResize ==
    /\ pc = "start"
    /\ frame = NoFrame
    /\ ret = NoRet
    /\ \E s \in ResizeShapes :
          \E data \in [Indices(s) -> PixelValues], t \in Targets(s), f \in FillValues :
              call = [fn |-> "resize_center", img |-> [shape |-> s, data |-> data],
                      resize_dims |-> t, fill_value |-> f]

\* big = resize_center(img, *t, fill_value=f)
Enlarge ==
    /\ pc = "start"
    /\ call.fn = "resize_center"
    /\ frame' = [fn |-> "resize_center",
                 big |-> resize_center(call.img, call.resize_dims, call.fill_value)]
    /\ pc' = "enlarged"
    /\ UNCHANGED <<call, ret>>

\* resize_center(big, *img.shape), with the default fill_value=0
Shrink ==
    /\ pc = "enlarged"
    /\ frame.big.kind = "array"
    /\ ret' = resize_center(frame.big.val, call.img.shape, 0)
    /\ pc' = "done"
    /\ UNCHANGED <<call, frame>>

NextResize == Enlarge \/ Shrink

SpecResize == InitResize /\ [][NextResize]_vars

\* The centered window of the enlarged array that holds the copy of img.
WindowLo(i) ==
    OrShape(call.img, call.resize_dims)[i] \div 2 - call.img.shape[i] \div 2

InWindow(idx) ==
    \A i \in DOMAIN idx :
        WindowLo(i) <= idx[i] /\ idx[i] < WindowLo(i) + call.img.shape[i]

-----------------------------------------------------------------------------
(* CenterSampler: generate_pos_neg_label_crop_centers *)
(*                                                                         *)
(* label and image hold the values 0 and 1 and are kept as their shape     *)
(* and the set nz of the indices that hold 1.  A ratio is kept as its      *)
(* numerator over RandDen.                                                 *)

\* np.uint16 has 16 bits
TwoPow16 == 65536

\* .astype(np.uint16) of a non-negative value: the fraction is dropped by the
\* caller, the integer is reduced to 16 bits
astype_uint16(x) == x % TwoPow16

RECURSIVE Prod(_)
Prod(shape) == IF shape = <<>> THEN 1 ELSE shape[1] * Prod(Tail(shape))

RECURSIVE ravel(_, _)
\* Position of an index in the row-major flattening of an array.
ravel(idx, shape) ==
    IF idx = <<>> THEN 0
    ELSE idx[1] * Prod(Tail(shape)) + ravel(Tail(idx), Tail(shape))

RECURSIVE unravel_index(_, _)
\* np.unravel_index(k, shape)
unravel_index(k, shape) ==
    IF shape = <<>> THEN <<>>
    ELSE <<k \div Prod(Tail(shape))>>
            \o unravel_index(k % Prod(Tail(shape)), Tail(shape))

ValueAt(arr, idx) == IF idx \in arr.nz THEN 1 ELSE 0

\* max_size = label.shape[1:]
max_size(label) == Tail(label.shape)

\* The two assertions on size.
SizeAccepted(label, size) ==
    /\ Len(max_size(label)) = Len(size)
    /\ \A i \in DOMAIN size : max_size(label)[i] - size[i] >= 0

\* valid_start = np.floor_divide(size, 2)
valid_start(size) == [i \in DOMAIN size |-> size[i] \div 2]

\* (max_size + 1 - size / 2).astype(np.uint16), then the loop that adds 1 to
\* an end equal to its start (in the uint16 array)
valid_end(label, size) ==
    LET raw == [i \in DOMAIN size |->
                   astype_uint16((2 * (max_size(label)[i] + 1) - size[i]) \div 2)]
    IN  [i \in DOMAIN size |->
            IF valid_start(size)[i] = raw[i] THEN astype_uint16(raw[i] + 1)
            ELSE raw[i]]

\* np.nonzero(np.any(label, axis=0).ravel())[0]
fg_indicies(label) == {ravel(Tail(idx), max_size(label)) : idx \in label.nz}

\* np.any(image > image_threshold, axis=0).ravel(), as the set of positions
\* that hold True
img_flat(image, image_threshold) ==
    {ravel(Tail(idx), Tail(image.shape)) :
        idx \in {j \in Indices(image.shape) : ValueAt(image, j) > image_threshold}}

bg_indicies(label, image, image_threshold) ==
    IF image.none
    THEN {k \in 0..(Prod(max_size(label)) - 1) : k \notin fg_indicies(label)}
    ELSE {k \in img_flat(image, image_threshold) : k \notin fg_indicies(label)}

\* Faulty variant of Override: the two overrides are swapped.
OverrideSwapped(nfg) == IF nfg = 0 THEN RandDen ELSE 0

\* pos_ratio = 0 if not len(fg_indicies) else 1
Override(nfg) == IF nfg = 0 THEN 0 ELSE RandDen

\* The shift of one coordinate into the range of valid centers; valid_end[i]
\* is a uint16 scalar, so is valid_end[i] - 1.
ShiftCoord(c, vs, ve) ==
    LET lo == IF c < vs THEN vs ELSE c
    IN  IF c >= ve THEN astype_uint16(ve - 1) ELSE lo

\* The center of one draw: unravel against label.shape, drop the channel axis,
\* shift every coordinate.
CenterOf(k, label, vs, ve) ==
    LET center == Tail(unravel_index(k, label.shape))
    IN  [i \in DOMAIN center |-> ShiftCoord(center[i], vs[i], ve[i])]

\* Labels: one channel of 3, two channels of 2, one channel of 2 x 2.  The
\* wide label has one channel of WideExtent with one foreground voxel; it is
\* sampled once, from the background.
LabelShapes == {<<1, 3>>, <<2, 2>>, <<1, 2, 2>>}

NoImage == [none |-> TRUE]

\* Images: none, or an array shaped like the label that holds 1 nowhere, at
\* one index, or everywhere.
Images(shape) ==
    {NoImage} \cup
    {[none |-> FALSE, shape |-> shape, nz |-> nz] :
        nz \in {{}, Indices(shape)} \cup {{j} : j \in Indices(shape)}}

ValidSizes(shape) ==
    {size \in [1..(Len(shape) - 1) -> 1..3] :
        \A i \in DOMAIN size : size[i] <= shape[i + 1]}

WideSizes == {<<2>>, <<10>>}

\* Supplied values of pos_ratio: from below 0 to above 1.
Ratios == (-1)..(RandDen + 1)

InitSampler ==
    /\ pc = "start"
    /\ frame = NoFrame
    /\ ret = NoRet
    /\ \/ \E shape \in LabelShapes, n \in 1..MaxSamples, p \in Ratios :
                \E nz \in SUBSET Indices(shape), image \in Images(shape),
                   thr \in {0, 1}, size \in ValidSizes(shape) :
                    call = [fn |-> "generate_pos_neg_label_crop_centers",
                            label |-> [shape |-> shape, nz |-> nz], size |-> size,
                            num_samples |-> n, pos_ratio |-> p, image |-> image,
                            image_threshold |-> thr]
       \/ \E size \in WideSizes :
                call = [fn |-> "generate_pos_neg_label_crop_centers",
                        label |-> [shape |-> <<1, WideExtent>>, nz |-> {<<0, 7>>}],
                        size |-> size, num_samples |-> 1, pos_ratio |-> 0,
                        image |-> NoImage, image_threshold |-> 0]

SamplerCall == call.fn = "generate_pos_neg_label_crop_centers"

Fg == fg_indicies(call.label)
Bg == bg_indicies(call.label, call.image, call.image_threshold)

\* Lines 184-211: the assertions, the valid range, the index sets, and the
\* error or the warning with the override of pos_ratio.
Prepare ==
    /\ pc = "start"
    /\ SamplerCall
    /\ IF ~SizeAccepted(call.label, call.size)
       THEN /\ ret' = [kind |-> "AssertionError"]
            /\ pc' = "done"
            /\ UNCHANGED frame
       ELSE IF Fg = {} /\ Bg = {}
       THEN /\ ret' = [kind |-> "ValueError"]
            /\ pc' = "done"
            /\ UNCHANGED frame
       ELSE /\ frame' = [fn |-> "generate_pos_neg_label_crop_centers",
                         valid_start |-> valid_start(call.size),
                         valid_end |-> valid_end(call.label, call.size),
                         warned |-> (Fg = {} \/ Bg = {}),
                         pos_ratio |-> IF Fg = {} \/ Bg = {}
                                       THEN Override(Cardinality(Fg))
                                       ELSE call.pos_ratio,
                         centers |-> <<>>,
                         used |-> <<>>]
            /\ pc' = "loop"
            /\ UNCHANGED ret
    /\ UNCHANGED call

\* One iteration of the loop: rand() picks the set, randint(len) an index of
\* it (randint(0) raises ValueError).  used records, for the properties, the
\* set each draw took its index from.
Draw ==
    /\ pc = "loop"
    /\ SamplerCall
    /\ Len(frame.centers) < call.num_samples
    /\ \E u \in 0..(RandDen - 1) :
          LET use_fg == u < frame.pos_ratio
              indicies_to_use == IF use_fg THEN Fg ELSE Bg
          IN  IF indicies_to_use = {}
              THEN /\ ret' = [kind |-> "ValueError"]
                   /\ pc' = "done"
                   /\ UNCHANGED frame
              ELSE \E k \in indicies_to_use :
                      /\ frame' = [frame EXCEPT
                            !.centers = Append(@, CenterOf(k, call.label, frame.valid_start,
                                                   frame.valid_end)),
                            !.used = Append(@, IF use_fg THEN "fg" ELSE "bg")]
                      /\ pc' = "loop"
                      /\ UNCHANGED ret
    /\ UNCHANGED call

\* return centers
ReturnCenters ==
    /\ pc = "loop"
    /\ SamplerCall
    /\ Len(frame.centers) = call.num_samples
    /\ ret' = [kind |-> "centers", val |-> frame.centers]
    /\ pc' = "done"
    /\ UNCHANGED <<call, frame>>

NextSampler == Prepare \/ Draw \/ ReturnCenters

SpecSampler == InitSampler /\ [][NextSampler]_vars

\* The range of valid centers as the claim states it, without the 16-bit
\* conversion: floor(S + 1 - size / 2), raised by 1 only if equal to the start.
StatedEnd(i) ==
    LET e == (2 * (max_size(call.label)[i] + 1) - call.size[i]) \div 2
    IN  IF e = call.size[i] \div 2 THEN e + 1 ELSE e

CenterValid(c) ==
    \A i \in DOMAIN call.size :
        LET lo == c[i] - call.size[i] \div 2
        IN  /\ call.size[i] \div 2 <= c[i]
            /\ c[i] < StatedEnd(i)
            /\ 0 <= lo
            /\ lo + call.size[i] <= max_size(call.label)[i]

\* C5 as claimed: every returned center lies in [valid_start, valid_end) in
\* every dimension, so the window of size[i] around it lies inside the label.
C5_CentersValid ==
    SamplerCall /\ pc = "done" /\ ret.kind = "centers" =>
        \A n \in DOMAIN ret.val : CenterValid(ret.val[n])

\* The same property restricted to the labels whose extents fit 16 bits.
CentersValidNarrow ==
    \A i \in DOMAIN call.size : max_size(call.label)[i] < TwoPow16 - 1
        => C5_CentersValid

\* C6: both index sets empty: the call raises and returns no centers.  Exactly
\* one empty: the call does not fail, warns, overrides pos_ratio (0 without
\* foreground, 1 without background) and every draw takes its index from the
\* non-empty set, whatever the random source returns.
C6_EmptySets ==
    SamplerCall /\ pc # "start" =>
        /\ Fg = {} /\ Bg = {} =>
              /\ pc = "done"
              /\ ret = [kind |-> "ValueError"]
              /\ frame = NoFrame
        /\ (Fg = {}) # (Bg = {}) =>
              /\ ret.kind \in {"none", "centers"}
              /\ frame.warned
              /\ frame.pos_ratio = (IF Fg = {} THEN 0 ELSE RandDen)
              /\ \A n \in DOMAIN frame.used :
                    frame.used[n] = (IF Fg = {} THEN "bg" ELSE "fg")
              /\ Len(frame.centers) = Len(frame.used)
              /\ pc = "done" =>
                    /\ ret.kind = "centers"
                    /\ Len(ret.val) = call.num_samples

\* C6 witness: without foreground and with pos_ratio = 1 supplied, all
\* MaxSamples centers were drawn from the background and returned.
C6_Witness ==
    /\ SamplerCall
    /\ pc = "done"
    /\ Fg = {}
    /\ Bg # {}
    /\ call.pos_ratio = RandDen
    /\ call.num_samples = MaxSamples
    /\ ret.kind = "centers"
    /\ frame.used = [n \in 1..MaxSamples |-> "bg"]

-----------------------------------------------------------------------------
(* AffineBuilder *)
(*                                                                         *)
(* Angles are whole quarter turns, so that sines and cosines are the       *)
(* integers -1, 0, 1 and matrix products are exact.  A builder returns a   *)
(* record: a matrix, None, or the exception it raised.                     *)

Sin(a) == CASE a % 4 = 0 -> 0 [] a % 4 = 1 -> 1 [] a % 4 = 2 -> 0 [] OTHER -> -1
Cos(a) == CASE a % 4 = 0 -> 1 [] a % 4 = 1 -> 0 [] a % 4 = 2 -> -1 [] OTHER -> 0

\* np.eye(n)
eye(n) == [i \in 1..n |-> [j \in 1..n |-> IF i = j THEN 1 ELSE 0]]

RECURSIVE Dot(_, _, _, _)
\* Sum over k = 1..n of A[i][k] * B[k][j]
Dot(A, B, ij, n) ==
    IF n = 0 THEN 0 ELSE A[ij[1]][n] * B[n][ij[2]] + Dot(A, B, ij, n - 1)

\* The @ operator on two matrices
MatMul(A, B) ==
    [i \in 1..Len(A) |-> [j \in 1..Len(B[1]) |-> Dot(A, B, <<i, j>>, Len(B))]]

Matrix(m) == [kind |-> "matrix", val |-> m]
None == [kind |-> "None"]

\* s[:n] of a sequence
Take(s, n) == SubSeq(s, 1, Min(n, Len(s)))

\* s padded at the end with v up to n entries
PadTo(s, n, v) == [i \in 1..Max(n, Len(s)) |-> IF i <= Len(s) THEN s[i] ELSE v]

create_rotate(spatial_dims, radians) ==
    IF spatial_dims = 2 /\ Len(radians) >= 1
    THEN LET sin_ == Sin(radians[1])
             cos_ == Cos(radians[1])
         IN  Matrix(<< <<cos_, -sin_, 0>>, <<sin_, cos_, 0>>, <<0, 0, 1>> >>)
    ELSE IF spatial_dims = 3
    THEN LET first ==
                 IF Len(radians) >= 1
                 THEN LET sin_ == Sin(radians[1])
                          cos_ == Cos(radians[1])
                      IN  Matrix(<< <<1, 0, 0, 0>>, <<0, cos_, -sin_, 0>>,
                                    <<0, sin_, cos_, 0>>, <<0, 0, 0, 1>> >>)
                 ELSE None
             second ==
                 IF Len(radians) >= 2
                 THEN LET sin_ == Sin(radians[2])
                          cos_ == Cos(radians[2])
                      IN  Matrix(MatMul(first.val,
                                     << <<cos_, 0, sin_, 0>>, <<0, 1, 0, 0>>,
                                        <<-sin_, 0, cos_, 0>>, <<0, 0, 0, 1>> >>))
                 ELSE first
             third ==
                 IF Len(radians) >= 3
                 THEN LET sin_ == Sin(radians[3])
                          cos_ == Cos(radians[3])
                      IN  Matrix(MatMul(second.val,
                                     << <<cos_, -sin_, 0, 0>>, <<sin_, cos_, 0, 0>>,
                                        <<0, 0, 1, 0>>, <<0, 0, 0, 1>> >>))
                 ELSE second
         IN  third
    ELSE [kind |-> "ValueError"]

create_shear(spatial_dims, coefs) ==
    IF spatial_dims = 2
    THEN LET c == PadTo(coefs, 2, 0)
         IN  Matrix(<< <<1, c[1], 0>>, <<c[2], 1, 0>>, <<0, 0, 1>> >>)
    ELSE IF spatial_dims = 3
    THEN LET c == PadTo(coefs, 6, 0)
         IN  Matrix(<< <<1, c[1], c[2], 0>>, <<c[3], 1, c[4], 0>>,
                       <<c[5], c[6], 1, 0>>, <<0, 0, 0, 1>> >>)
    ELSE [kind |-> "NotImplementedError"]

\* np.diag(scaling_factor[:spatial_dims] + [1.])
create_scale(spatial_dims, scaling_factor) ==
    LET diagonal == Take(PadTo(scaling_factor, spatial_dims, 1), spatial_dims) \o <<1>>
    IN  Matrix([i \in 1..Len(diagonal) |->
                   [j \in 1..Len(diagonal) |-> IF i = j THEN diagonal[i] ELSE 0]])

\* Faulty variant of create_translate: the shift is written to the bottom row.
create_translate_Transposed(spatial_dims, shift) ==
    LET s == Take(shift, spatial_dims)
    IN  Matrix([i \in 1..(spatial_dims + 1) |->
                   [j \in 1..(spatial_dims + 1) |->
                       IF i = spatial_dims + 1 /\ j <= Len(s) THEN s[j]
                       ELSE eye(spatial_dims + 1)[i][j]]])

\* affine[i, spatial_dims] = a for i, a in enumerate(shift[:spatial_dims])
create_translate(spatial_dims, shift) ==
    LET s == Take(shift, spatial_dims)
    IN  Matrix([i \in 1..(spatial_dims + 1) |->
                   [j \in 1..(spatial_dims + 1) |->
                       IF j = spatial_dims + 1 /\ i <= Len(s) THEN s[i]
                       ELSE eye(spatial_dims + 1)[i][j]]])

\* Faulty variant of to_affine_nd_d: sizes are taken for ranks.
to_affine_nd_d_NoMinusOne(new_affine, affine) == Min(Len(new_affine), Len(affine))

\* d = min(len(new_affine) - 1, len(affine) - 1)
to_affine_nd_d(new_affine, affine) == Min(Len(new_affine) - 1, Len(affine) - 1)

\* to_affine_nd for an integer r and a two-dimensional affine: the identity
\* of size r + 1 with the top-left d x d block of affine, then the top d
\* entries of its last column, copied in.
to_affine_nd(r, affine) ==
    IF r < 0 THEN [kind |-> "ValueError"]
    ELSE LET new_affine == eye(r + 1)
             d == to_affine_nd_d(new_affine, affine)
         IN  Matrix([i \in 1..(r + 1) |->
                        [j \in 1..(r + 1) |->
                            IF i <= d /\ j = r + 1 THEN affine[i][Len(affine[i])]
                            ELSE IF i <= d /\ j <= d THEN affine[i][j]
                            ELSE new_affine[i][j]]])

(* to_affine_nd(3, to_affine_nd(2, M)) *)

InitAffineNd ==
    /\ pc = "start"
    /\ frame = NoFrame
    /\ ret = NoRet
    /\ \E M \in [1..3 -> [1..3 -> 0..MaxEntry]] :
          call = [fn |-> "to_affine_nd", affine |-> M]

\* inner = to_affine_nd(2, M)
ToAffine2 ==
    /\ pc = "start"
    /\ call.fn = "to_affine_nd"
    /\ frame' = [fn |-> "to_affine_nd", inner |-> to_affine_nd(2, call.affine)]
    /\ pc' = "inner"
    /\ UNCHANGED <<call, ret>>

\* to_affine_nd(3, inner)
ToAffine3 ==
    /\ pc = "inner"
    /\ frame.inner.kind = "matrix"
    /\ ret' = to_affine_nd(3, frame.inner.val)
    /\ pc' = "done"
    /\ UNCHANGED <<call, frame>>

NextAffineNd == ToAffine2 \/ ToAffine3

SpecAffineNd == InitAffineNd /\ [][NextAffineNd]_vars

\* C7: to_affine_nd(3, to_affine_nd(2, M)) keeps the 2 x 2 block and the
\* translation of M in rows 0 and 1, and has the identity's third row, third
\* column and bottom row.
C7_PromoteTwice ==
    pc = "done" /\ call.fn = "to_affine_nd" =>
        LET M == call.affine
        IN  ret = Matrix(<< <<M[1][1], M[1][2], 0, M[1][3]>>,
                            <<M[2][1], M[2][2], 0, M[2][3]>>,
                            <<0, 0, 1, 0>>,
                            <<0, 0, 0, 1>> >>)

\* C7 witness: a matrix M whose third row is not the identity's and whose
\* translation is not zero has been promoted twice.
C7_Witness ==
    /\ pc = "done"
    /\ call.fn = "to_affine_nd"
    /\ call.affine[3] = <<1, 1, 0>>
    /\ call.affine[1][3] = 1
    /\ call.affine[2][1] = 1
    /\ ret.kind = "matrix"

(* Products of builder matrices *)

\* Non-empty parameter lists of at most n entries over the values vals.
Params(vals, n) == UNION {[1..k -> vals] : k \in 1..n}

\* Quarter and half turns; shear coefficients; scale factors; shifts.
ComposeAngles == {1, 2}
ComposeCoefs == {1}
ComposeFactors == {2}
ComposeShifts == {1}

InitCompose ==
    /\ pc = "compose"
    /\ ret = NoRet
    /\ \E spatial_dims \in {2, 3} :
          /\ call = [fn |-> "compose", spatial_dims |-> spatial_dims]
          /\ frame = [fn |-> "compose", count |-> 0, affine |-> eye(spatial_dims + 1)]

\* The product so far, multiplied on the right by one more builder matrix.
Times(m) ==
    /\ pc = "compose"
    /\ call.fn = "compose"
    /\ frame.count < MaxFactors
    /\ m.kind = "matrix"
    /\ frame' = [frame EXCEPT
                    !.count = @ + 1,
                    !.affine = IF frame.count = 0 THEN m.val ELSE MatMul(@, m.val)]
    /\ UNCHANGED <<pc, call, ret>>

TimesRotate ==
    \E radians \in Params(ComposeAngles, IF call.spatial_dims = 2 THEN 1 ELSE 3) :
        Times(create_rotate(call.spatial_dims, radians))

TimesShear ==
    \E coefs \in Params(ComposeCoefs, IF call.spatial_dims = 2 THEN 2 ELSE 6) :
        Times(create_shear(call.spatial_dims, coefs))

TimesScale ==
    \E scaling_factor \in Params(ComposeFactors, call.spatial_dims) :
        Times(create_scale(call.spatial_dims, scaling_factor))

TimesTranslate ==
    \E shift \in Params(ComposeShifts, call.spatial_dims) :
        Times(create_translate(call.spatial_dims, shift))

NextCompose == TimesRotate \/ TimesShear \/ TimesScale \/ TimesTranslate

SpecCompose == InitCompose /\ [][NextCompose]_vars

\* C8: after every multiplication step the product of builder matrices for
\* spatial rank d is a (d+1) x (d+1) matrix with the bottom row [0, ..., 0, 1].
C8_BottomRow ==
    call.fn = "compose" /\ frame.count >= 1 =>
        LET n == call.spatial_dims + 1
        IN  /\ Len(frame.affine) = n
            /\ \A i \in 1..n : Len(frame.affine[i]) = n
            /\ \A j \in 1..n : frame.affine[n][j] = (IF j = n THEN 1 ELSE 0)

\* C8 witness: a product of MaxFactors matrices of rank 3 that is neither
\* diagonal nor free of translation, so that a shear or a rotation, and a
\* translation, took part.
C8_Witness ==
    /\ call.fn = "compose"
    /\ call.spatial_dims = 3
    /\ frame.count = MaxFactors
    /\ frame.affine[1][4] # 0
    /\ frame.affine[2][1] # 0
    /\ frame.affine[3][3] \notin {0, 1, -1}

(* create_rotate *)

RotateAngles == {0, 1, 2, 3}

InitRotate ==
    /\ pc = "start"
    /\ frame = NoFrame
    /\ ret = NoRet
    /\ \E spatial_dims \in 1..4, radians \in UNION {[1..k -> RotateAngles] : k \in 0..3} :
          call = [fn |-> "create_rotate", spatial_dims |-> spatial_dims,
                  radians |-> radians]

Rotate ==
    /\ pc = "start"
    /\ call.fn = "create_rotate"
    /\ ret' = create_rotate(call.spatial_dims, call.radians)
    /\ pc' = "done"
    /\ UNCHANGED <<call, frame>>

NextRotate == Rotate

SpecRotate == InitRotate /\ [][NextRotate]_vars

\* The elementary rotation about axis 1, 2 or 3, or the identity when the
\* angle is not supplied.
Elementary(axis, radians) ==
    IF Len(radians) < axis THEN eye(4)
    ELSE LET s == Sin(radians[axis])
             c == Cos(radians[axis])
         IN  CASE axis = 1 -> << <<1, 0, 0, 0>>, <<0, c, -s, 0>>,
                                 <<0, s, c, 0>>, <<0, 0, 0, 1>> >>
               [] axis = 2 -> << <<c, 0, s, 0>>, <<0, 1, 0, 0>>,
                                 <<-s, 0, c, 0>>, <<0, 0, 0, 1>> >>
               [] OTHER -> << <<c, -s, 0, 0>>, <<s, c, 0, 0>>,
                              <<0, 0, 1, 0>>, <<0, 0, 0, 1>> >>

\* C9 as claimed: for spatial_dims = 3 and 0 to 3 angles create_rotate returns
\* R1 * R2 * R3 with the identity for every angle not supplied (the identity
\* for no angle), and it raises ValueError only for spatial_dims not in {2, 3}.
C9_RotateProduct ==
    pc = "done" /\ call.fn = "create_rotate" =>
        /\ call.spatial_dims = 3 =>
              ret = Matrix(MatMul(MatMul(Elementary(1, call.radians),
                                         Elementary(2, call.radians)),
                                  Elementary(3, call.radians)))
        /\ ret.kind = "ValueError" => call.spatial_dims \notin {2, 3}

\* The same with at least one angle supplied.
RotateProductWithAngles ==
    Len(call.radians) >= 1 => C9_RotateProduct

-----------------------------------------------------------------------------
(* GridBuilder *)
(*                                                                         *)
(* A spacing and a coordinate are exact fractions [num, den] with a        *)
(* positive denominator.  A grid is kept as its shape and its ranges, the  *)
(* per-dimension coordinate sequences that np.meshgrid(indexing='ij')      *)
(* spreads over the grid: coords[k][idx] = ranges[k][idx[k]].              *)

Frac(num, den) == [num |-> num, den |-> den]
Less(a, b) == a.num * b.den < b.num * a.den

\* np.ceil(a / b) for b > 0
CeilDiv(a, b) == -((-a) \div b)

\* np.linspace(-(d - 1.) / 2. * s, (d - 1.) / 2. * s, int(d)): d points, s apart
linspace_centered(d, s) ==
    [k \in 1..d |-> Frac((2 * (k - 1) - (d - 1)) * s.num, 2 * s.den)]

NoSpacing == <<>>

\* spacing = spacing or tuple(1.0 for _ in spatial_size)
OrUnitSpacing(spatial_size, spacing) ==
    IF spacing = NoSpacing THEN [i \in DOMAIN spatial_size |-> Frac(1, 1)]
    ELSE spacing

create_grid(spatial_size, spacing, homogeneous) ==
    LET sp == OrUnitSpacing(spatial_size, spacing)
        n == ZipLen({Len(spatial_size), Len(sp)})
    IN  [shape |-> [i \in 1..n |-> spatial_size[i]],
         ranges |-> [i \in 1..n |-> linspace_centered(spatial_size[i], sp[i])],
         homogeneous |-> homogeneous]

\* Faulty variant of grid_size: the margin of two points is left out.
grid_size_NoMargin(d, s) ==
    IF d % 2 = 0
    THEN CeilDiv((d - 1) * s.den + s.num, 2 * s.num) * 2
    ELSE CeilDiv((d - 1) * s.den, 2 * s.num) * 2 + 1

\* The per-dimension size of the control grid:
\* ceil((d - 1) / (2 s) + 0.5) * 2 + 2 for an even d,
\* ceil((d - 1) / (2 s)) * 2 + 3 for an odd d.
grid_size(d, s) ==
    IF d % 2 = 0
    THEN CeilDiv((d - 1) * s.den + s.num, 2 * s.num) * 2 + 2
    ELSE CeilDiv((d - 1) * s.den, 2 * s.num) * 2 + 3

create_control_grid(spatial_shape, spacing, homogeneous) ==
    LET n == ZipLen({Len(spatial_shape), Len(spacing)})
        grid_shape == [i \in 1..n |-> grid_size(spatial_shape[i], spacing[i])]
    IN  create_grid(grid_shape, spacing, homogeneous)

Spacings == {Frac(p, q) : p \in 1..MaxSpacing, q \in 1..MaxSpacing}

InitGrid ==
    /\ pc = "start"
    /\ frame = NoFrame
    /\ ret = NoRet
    /\ \E r \in 1..2 :
          \E spatial_shape \in [1..r -> 1..MaxGridExt], spacing \in [1..r -> Spacings],
             homogeneous \in BOOLEAN :
              call = [fn |-> "create_control_grid", spatial_shape |-> spatial_shape,
                      spacing |-> spacing, homogeneous |-> homogeneous]

\* dense = create_grid(spatial_shape), the dense grid of unit spacing
DenseGrid ==
    /\ pc = "start"
    /\ call.fn = "create_control_grid"
    /\ frame' = [fn |-> "create_control_grid",
                 dense |-> create_grid(call.spatial_shape, NoSpacing, call.homogeneous)]
    /\ pc' = "dense"
    /\ UNCHANGED <<call, ret>>

\* create_control_grid(spatial_shape, spacing)
ControlGrid ==
    /\ pc = "dense"
    /\ call.fn = "create_control_grid"
    /\ ret' = create_control_grid(call.spatial_shape, call.spacing, call.homogeneous)
    /\ pc' = "done"
    /\ UNCHANGED <<call, frame>>

NextGrid == DenseGrid \/ ControlGrid

SpecGrid == InitGrid /\ [][NextGrid]_vars

\* The size the claim states for extent d and spacing s.
StatedSize(d, s) ==
    IF d % 2 = 0
    THEN CeilDiv(2 * (d - 1) * s.den + 2 * s.num, 4 * s.num) * 2 + 2
    ELSE CeilDiv(2 * (d - 1) * s.den, 4 * s.num) * 2 + 3

\* C10: in every dimension the control grid has the stated size, its
\* half-extent (n - 1) / 2 * s is greater than the half-extent (d - 1) / 2 of
\* the dense grid, and at least one control point lies beyond the dense grid
\* at each end.
C10_ControlGridCovers ==
    pc = "done" /\ call.fn = "create_control_grid" =>
        \A i \in DOMAIN call.spatial_shape :
            LET d == call.spatial_shape[i]
                s == call.spacing[i]
                n == ret.shape[i]
                control == ret.ranges[i]
                dense == frame.dense.ranges[i]
            IN  /\ n = StatedSize(d, s)
                /\ Len(control) = n
                /\ Len(dense) = d
                /\ (n - 1) * s.num > (d - 1) * s.den
                /\ \E k \in 1..n : Less(dense[d], control[k])
                /\ \E k \in 1..n : Less(control[k], dense[1])
                /\ control[n] = Frac((n - 1) * s.num, 2 * s.den)
                /\ dense[d] = Frac(d - 1, 2)

\* C10 witness: an even and an odd extent, one with a spacing that divides
\* the extent of the dense grid and one with a spacing wider than the grid.
C10_Witness ==
    /\ pc = "done"
    /\ call.fn = "create_control_grid"
    /\ call.spatial_shape = <<3, 4>>
    /\ call.spacing = <<Frac(1, 1), Frac(3, 1)>>
    /\ ret.shape = <<5, 4>>

=============================================================================
